---- MODULE Spec2Model ----
(***************************************************************************)
(* fotoloc: connected-component labeling (Blobs), its union-find           *)
(* (DisjointSet), the read-only queries on a labeled image, the outline of *)
(* a component (Outline) and the two line searches on an outline           *)
(* (findLinesHalvingExtending, findLinesExtendingDecreasingError).         *)
(*                                                                         *)
(* Blobs::Blobs is modelled pixel by pixel: one Assign step per pixel of   *)
(* the first raster pass, one Resolve step per pixel of the second, then   *)
(* the const queries label / object / in / startIn on the finished object. *)
(* DisjointSet (disjointset.h) is modelled from its documented contract:   *)
(* the direction of a merge, which that contract leaves open, is a         *)
(* nondeterministic choice.                                                *)
(*                                                                         *)
(* The line searches are modelled one loop round per step, with isLine     *)
(* and lineError as operators in exact integer arithmetic. distance,       *)
(* average and stdev (math.h) and Outline (outline.h) are modelled from    *)
(* their documented contracts.                                             *)
(***************************************************************************)
EXTENDS Integers, Sequences, FiniteSets, TLC

\* Bounds of the model
MaxW == 3
MaxH == 3
NumColors == 3
MaxLabel == 4

\* Program constants
default_label == 0
white == 255

VARIABLES w, h, img, labels, set, objs, next_label, pc, x, y, ret,
          outline, seg

vars == <<w, h, img, labels, set, objs, next_label, pc, x, y, ret,
         outline, seg>>

\* The labeled image and its union-find
blobs == <<w, h, img, labels, set, objs, next_label, pc, x, y, ret>>

\* No outline is being traced, no path is being segmented
idle == [pc |-> "idle"]

\* Pixel values the image may hold: a few shades and white (0xff), the
\* color Pixels::color reports outside the image.
Colors == (0 .. (NumColors - 2)) \cup {white}

--------------------------------------------------------------------------
\* Coord

Coord(px, py) == [x |-> px, y |-> py]

\* Coord::Coord()
CoordZero == Coord(0, 0)

default_coord == Coord(-1, -1)

\* operator<: is the y value less? If the same, is the x value less?
CoordLess(c1, c2) == c1.y < c2.y \/ (c1.y = c2.y /\ c1.x < c2.x)

CoordPair(f, l) == [first |-> f, last |-> l]

\* CoordPair::CoordPair(): both members default-constructed
CoordPairEmpty == CoordPair(CoordZero, CoordZero)

--------------------------------------------------------------------------
\* DisjointSet<int>: the forest maps every added label to its parent; a
\* root is its own parent.

EmptyMap == [k \in {} |-> k]

notfound == default_label

RECURSIVE findRoot(_, _)
findRoot(forest, l) ==
    IF forest[l] = l THEN l ELSE findRoot(forest, forest[l])

RECURSIVE pathTo(_, _)
pathTo(forest, l) ==
    IF forest[l] = l THEN {l} ELSE {l} \cup pathTo(forest, forest[l])

\* The value find returns
find(forest, l) ==
    IF l \in DOMAIN forest THEN findRoot(forest, l) ELSE notfound

\* The forest find leaves behind: every node on the path hangs off the root
compress(forest, l) ==
    IF l \notin DOMAIN forest THEN forest
    ELSE LET r == findRoot(forest, l)
             path == pathTo(forest, l)
         IN [k \in DOMAIN forest |-> IF k \in path THEN r ELSE forest[k]]

add(forest, l) ==
    IF l \in DOMAIN forest THEN forest ELSE forest @@ (l :> l)

\* A join that re-parents the label itself instead of its root
joinLabelNotRoot(forest, a, b) ==
    LET f1 == compress(compress(forest, a), b)
        ra == findRoot(f1, a)
        rb == findRoot(f1, b)
    IN IF ra = rb THEN {f1} ELSE {[f1 EXCEPT ![a] = rb], [f1 EXCEPT ![b] = ra]}

\* The forests join may leave: the two roots are linked, either way round
join(forest, a, b) ==
    LET f1 == compress(compress(forest, a), b)
        ra == findRoot(f1, a)
        rb == findRoot(f1, b)
    IN IF ra = rb THEN {f1} ELSE {[f1 EXCEPT ![ra] = rb], [f1 EXCEPT ![rb] = ra]}

\* for (int label : equivalent_labels) set.join(labels[y][x], label);
RECURSIVE joinAll(_, _, _)
joinAll(forest, lab, eq) ==
    IF eq = <<>> THEN {forest}
    ELSE UNION {joinAll(f, lab, Tail(eq)) : f \in join(forest, lab, Head(eq))}

--------------------------------------------------------------------------
\* Pixels<N>

inBounds(pt) == pt.x >= 0 /\ pt.y >= 0 /\ pt.x < w /\ pt.y < h

\* Pixels::color(c): white outside the image
color(pt) == IF inBounds(pt) THEN img[pt.y][pt.x] ELSE white

--------------------------------------------------------------------------
\* Blobs::Blobs, assignment pass

Cells == {Coord(px, py) : px \in 0 .. (w - 1), py \in 0 .. (h - 1)}

\* Left, up left, up only: the upper-right neighbour is forgotten
pointsNoUpRight(px, py) ==
    << Coord(px - 1, py), Coord(px - 1, py - 1), Coord(px, py - 1) >>

\* Left, up left, up, up right
points(px, py) ==
    << Coord(px - 1, py), Coord(px - 1, py - 1),
       Coord(px, py - 1), Coord(px + 1, py - 1) >>

\* The bounds check alone: the neighbour's color is not compared
sameColorNeighbourAnyColor(pt, current_color) ==
    /\ pt.x >= 0 /\ pt.y >= 0
    /\ pt.x < w /\ pt.y < h

\* The older constructor (blobs.h.onefile): the neighbour's color is
\* compared without the bounds check
sameColorNeighbourNoBounds(pt, current_color) ==
    color(pt) = current_color

sameColorNeighbour(pt, current_color) ==
    /\ pt.x >= 0 /\ pt.y >= 0
    /\ pt.x < w /\ pt.y < h
    /\ color(pt) = current_color

\* The loop over the four neighbours: lab is labels[y][x] so far
RECURSIVE scan(_, _, _, _, _)
scan(pts, current_color, lab, count, eq) ==
    IF pts = <<>>
    THEN [label |-> lab, count |-> count, different |-> eq # <<>>,
          equivalent_labels |-> eq]
    ELSE LET pt == Head(pts) IN
         IF sameColorNeighbour(pt, current_color)
         THEN IF count = 0
              THEN scan(Tail(pts), current_color, labels[pt.y][pt.x], 1, eq)
              ELSE IF lab # labels[pt.y][pt.x]
                   THEN scan(Tail(pts), current_color, lab, count + 1,
                             Append(eq, labels[pt.y][pt.x]))
                   ELSE scan(Tail(pts), current_color, lab, count + 1, eq)
         ELSE scan(Tail(pts), current_color, lab, count, eq)

\* The older constructor (blobs.h.onefile): both loops start at 1 and the
\* first column is skipped
AdvanceSkipFirstColumn(nextpc) ==
    IF x + 1 < w THEN x' = x + 1 /\ y' = y /\ pc' = pc
    ELSE IF y + 1 < h /\ w > 1 THEN x' = 1 /\ y' = y + 1 /\ pc' = pc
    ELSE x' = 0 /\ y' = 0 /\ pc' = nextpc

\* The two nested for loops: the next (x, y), or the end of the pass
Advance(nextpc) ==
    IF x + 1 < w THEN x' = x + 1 /\ y' = y /\ pc' = pc
    ELSE IF y + 1 < h THEN x' = 0 /\ y' = y + 1 /\ pc' = pc
    ELSE x' = 0 /\ y' = 0 /\ pc' = nextpc

\* A fresh label is handed out but the counter is not advanced
AssignNoIncrement ==
    /\ pc = "assign"
    /\ LET r == scan(points(x, y), color(Coord(x, y)), labels[y][x], 0, <<>>) IN
       IF r.count = 0
       THEN /\ labels' = [labels EXCEPT ![y][x] = next_label]
            /\ set' = add(set, next_label)
            /\ next_label' = next_label
       ELSE IF r.count > 1 /\ r.different
            THEN /\ labels' = [labels EXCEPT ![y][x] = r.label]
                 /\ set' \in joinAll(set, r.label, r.equivalent_labels)
                 /\ next_label' = next_label
            ELSE /\ labels' = [labels EXCEPT ![y][x] = r.label]
                 /\ UNCHANGED <<set, next_label>>
    /\ Advance("resolve")
    /\ UNCHANGED <<outline, seg>>
    /\ UNCHANGED <<w, h, img, objs, ret>>

Assign ==
    /\ pc = "assign"
    /\ LET r == scan(points(x, y), color(Coord(x, y)), labels[y][x], 0, <<>>) IN
       IF r.count = 0
       THEN /\ labels' = [labels EXCEPT ![y][x] = next_label]
            /\ set' = add(set, next_label)
            /\ next_label' = next_label + 1
       ELSE IF r.count > 1 /\ r.different
            THEN /\ labels' = [labels EXCEPT ![y][x] = r.label]
                 /\ set' \in joinAll(set, r.label, r.equivalent_labels)
                 /\ next_label' = next_label
            ELSE /\ labels' = [labels EXCEPT ![y][x] = r.label]
                 /\ UNCHANGED <<set, next_label>>
    /\ Advance("resolve")
    /\ UNCHANGED <<outline, seg>>
    /\ UNCHANGED <<w, h, img, objs, ret>>

--------------------------------------------------------------------------
\* Blobs::Blobs, resolution pass

\* Every sighting overwrites the whole entry
noteObjectOverwrite(map, repLabel, point) ==
    IF repLabel \notin DOMAIN map
    THEN map @@ (repLabel :> CoordPair(point, point))
    ELSE [map EXCEPT ![repLabel] = CoordPair(point, point)]

\* A later sighting is stored as the first one
noteObjectFirst(map, repLabel, point) ==
    IF repLabel \notin DOMAIN map
    THEN map @@ (repLabel :> CoordPair(point, point))
    ELSE [map EXCEPT ![repLabel].first = point]

\* objs[repLabel] = CoordPair(point, point), or objs[repLabel].last = point
noteObject(map, repLabel, point) ==
    IF repLabel \notin DOMAIN map
    THEN map @@ (repLabel :> CoordPair(point, point))
    ELSE [map EXCEPT ![repLabel].last = point]

\* The registry is keyed by the provisional label, not its representative
ResolveKeyedByProvisional ==
    /\ pc = "resolve"
    /\ LET point == Coord(x, y)
           currentLabel == labels[y][x]
       IN IF currentLabel # default_label
          THEN LET repLabel == find(set, currentLabel) IN
               /\ set' = compress(set, currentLabel)
               /\ IF repLabel # notfound
                  THEN /\ labels' = [labels EXCEPT ![y][x] = repLabel]
                       /\ objs' = noteObject(objs, currentLabel, point)
                  ELSE UNCHANGED <<labels, objs>>
          ELSE UNCHANGED <<set, labels, objs>>
    /\ Advance("done")
    /\ UNCHANGED <<outline, seg>>
    /\ UNCHANGED <<w, h, img, next_label, ret>>

Resolve ==
    /\ pc = "resolve"
    /\ LET point == Coord(x, y)
           currentLabel == labels[y][x]
       IN IF currentLabel # default_label
          THEN LET repLabel == find(set, currentLabel) IN
               /\ set' = compress(set, currentLabel)
               /\ IF repLabel # notfound
                  THEN /\ labels' = [labels EXCEPT ![y][x] = repLabel]
                       /\ objs' = noteObject(objs, repLabel, point)
                  ELSE UNCHANGED <<labels, objs>>
          ELSE UNCHANGED <<set, labels, objs>>
    /\ Advance("done")
    /\ UNCHANGED <<outline, seg>>
    /\ UNCHANGED <<w, h, img, next_label, ret>>

--------------------------------------------------------------------------

\* The last query made and what it returned; reads: the cells of the label
\* grid it read
Ret(op, arg, val, reads) == [op |-> op, arg |-> arg, val |-> val, reads |-> reads]

NoRet == Ret("none", <<>>, <<>>, {})

--------------------------------------------------------------------------
\* Blobs queries (coord.h holds blobs.cpp after line 43)

\* The upper bounds are tested with <=: the cell one past the end is read,
\* and holds whatever lies there (shown as -1)
labelOffByOne(pt) ==
    IF pt.x >= 0 /\ pt.x <= w /\ pt.y >= 0 /\ pt.y <= h
    THEN IF inBounds(pt) THEN labels[pt.y][pt.x] ELSE -1
    ELSE default_label

label(pt) ==
    IF pt.x >= 0 /\ pt.x < w /\ pt.y >= 0 /\ pt.y < h
    THEN labels[pt.y][pt.x]
    ELSE default_label

\* The cells of labels that label(pt) indexes
labelReads(pt) ==
    IF pt.x >= 0 /\ pt.x < w /\ pt.y >= 0 /\ pt.y < h THEN {pt} ELSE {}

object(l) == IF l \in DOMAIN objs THEN objs[l] ELSE CoordPairEmpty

\* The cells the two for loops of in() visit, in order
RECURSIVE rectRow(_, _, _)
rectRow(py, px, x2) ==
    IF px < x2 THEN <<Coord(px, py)>> \o rectRow(py, px + 1, x2) ELSE <<>>

RECURSIVE rectCells(_, _, _)
rectCells(py, p1, p2) ==
    IF py < p2.y THEN rectRow(py, p1.x, p2.x) \o rectCells(py + 1, p1, p2)
    ELSE <<>>

\* used_labels.insert is forgotten: a label is reported at every pixel
RECURSIVE inScanNoInsert(_, _, _)
inScanNoInsert(cells, used_labels, subset) ==
    IF cells = <<>> THEN subset
    ELSE LET c == Head(cells)
             l == labels[c.y][c.x]
         IN IF l # default_label /\ l \notin used_labels /\ l \in DOMAIN objs
            THEN inScanNoInsert(Tail(cells), used_labels,
                                Append(subset, objs[l].first))
            ELSE inScanNoInsert(Tail(cells), used_labels, subset)

RECURSIVE inScan(_, _, _)
inScan(cells, used_labels, subset) ==
    IF cells = <<>> THEN subset
    ELSE LET c == Head(cells)
             l == labels[c.y][c.x]
         IN IF l # default_label /\ l \notin used_labels
            THEN IF l \in DOMAIN objs
                 THEN inScan(Tail(cells), used_labels \cup {l},
                             Append(subset, objs[l].first))
                 ELSE inScan(Tail(cells), used_labels, subset)
            ELSE inScan(Tail(cells), used_labels, subset)

in(p1, p2) == inScan(rectCells(p1.y, p1, p2), {}, <<>>)

\* std::map iterates in ascending key order
RECURSIVE sortedKeys(_)
sortedKeys(S) ==
    IF S = {} THEN <<>>
    ELSE LET m == CHOOSE k \in S : \A j \in S : k <= j
         IN <<m>> \o sortedKeys(S \ {m})

firstInRect(f, p1, p2) ==
    f.y >= p1.y /\ f.y <= p2.y /\ f.x >= p1.x /\ f.x <= p2.x

RECURSIVE startInScan(_, _, _, _)
startInScan(keys, p1, p2, subset) ==
    IF keys = <<>> THEN subset
    ELSE LET f == objs[Head(keys)].first IN
         IF firstInRect(f, p1, p2)
         THEN startInScan(Tail(keys), p1, p2, Append(subset, f))
         ELSE IF f.y > p2.y
              THEN subset
              ELSE startInScan(Tail(keys), p1, p2, subset)

startIn(p1, p2) == startInScan(sortedKeys(DOMAIN objs), p1, p2, <<>>)

\* The queries are const: what one returns depends on the finished object
\* alone, so a behaviour makes one query and ret keeps its answer.
Queryable == pc = "done" /\ ret.op = "none"

\* Arguments of the queries
ProbePoints == {Coord(px, py) : px \in -1 .. w, py \in -1 .. h}

\* Rectangles [p1, p2) inside the grid, p1 to the left of and above p2
InRects ==
    {<<Coord(x1, y1), Coord(x2, y2)>> :
        x1 \in 0 .. w, x2 \in 0 .. w, y1 \in 0 .. h, y2 \in 0 .. h}

StartInRects ==
    {<<Coord(x1, y1), Coord(x2, y2)>> :
        x1 \in 0 .. (w - 1), x2 \in 0 .. (w - 1),
        y1 \in 0 .. (h - 1), y2 \in 0 .. (h - 1)}

QueryLabel ==
    /\ Queryable
    /\ \E pt \in ProbePoints :
          ret' = Ret("label", pt, label(pt), labelReads(pt))
    /\ UNCHANGED <<outline, seg>>
    /\ UNCHANGED <<w, h, img, labels, set, objs, next_label, pc, x, y>>

QueryObject ==
    /\ Queryable
    /\ \E l \in 0 .. next_label :
          ret' = Ret("object", l, object(l), {})
    /\ UNCHANGED <<outline, seg>>
    /\ UNCHANGED <<w, h, img, labels, set, objs, next_label, pc, x, y>>

QueryIn ==
    /\ Queryable
    /\ \E r \in InRects :
          /\ r[1].x <= r[2].x /\ r[1].y <= r[2].y
          /\ ret' = Ret("in", r, in(r[1], r[2]), {})
    /\ UNCHANGED <<outline, seg>>
    /\ UNCHANGED <<w, h, img, labels, set, objs, next_label, pc, x, y>>

QueryStartIn ==
    /\ Queryable
    /\ \E r \in StartInRects :
          /\ r[1].x <= r[2].x /\ r[1].y <= r[2].y
          /\ ret' = Ret("startIn", r, startIn(r[1], r[2]), {})
    /\ UNCHANGED <<outline, seg>>
    /\ UNCHANGED <<w, h, img, labels, set, objs, next_label, pc, x, y>>

--------------------------------------------------------------------------

Init ==
    /\ w \in 0 .. MaxW
    /\ h \in 0 .. MaxH
    /\ img \in [0 .. (h - 1) -> [0 .. (w - 1) -> Colors]]
    /\ labels = [py \in 0 .. (h - 1) |-> [px \in 0 .. (w - 1) |-> default_label]]
    /\ set = EmptyMap
    /\ objs = EmptyMap
    /\ next_label = default_label + 1
    /\ pc = IF w = 0 \/ h = 0 THEN "done" ELSE "assign"
    /\ x = 0
    /\ y = 0
    /\ ret = NoRet
    /\ outline = idle
    /\ seg = idle

Next ==
    \/ Assign
    \/ Resolve
    \/ QueryLabel
    \/ QueryObject
    \/ QueryIn
    \/ QueryStartIn

Spec == Init /\ [][Next]_vars

--------------------------------------------------------------------------
\* The resolution pass on its own, for the case it logs: a label grid some
\* of whose provisional labels the union-find does not hold.

\* Bounds of the label grid
ResW == 2
ResH == 2

\* The provisional labels of the grid
ResLabels == 1 .. 2

\* The forests over some of the labels: every label leads to a root
ResForests ==
    UNION {{f \in [D -> D] : \A l \in D : \E r \in D :
                                f[r] = r /\ r \in pathTo(f, l)} :
              D \in {{}, {1}, {2}}}
      \cup {f \in [ResLabels -> ResLabels] :
               \E r \in ResLabels : f[r] = r /\ \A l \in ResLabels :
                   f[l] = r \/ f[l] = l}

ResolveInit ==
    /\ w \in 1 .. ResW
    /\ h \in 1 .. ResH
    /\ img = [py \in 0 .. (h - 1) |-> [px \in 0 .. (w - 1) |-> white]]
    /\ labels \in [0 .. (h - 1) -> [0 .. (w - 1) -> ResLabels]]
    /\ set \in ResForests
    /\ objs = EmptyMap
    /\ next_label = Cardinality(ResLabels) + 1
    /\ pc = "resolve"
    /\ x = 0
    /\ y = 0
    /\ ret = NoRet
    /\ outline = idle
    /\ seg = idle

ResolveNext == Resolve

SpecResolve == ResolveInit /\ [][ResolveNext]_vars

--------------------------------------------------------------------------
\* DisjointSet on its own: any sequence of add, join and find

SetLabels == 1 .. MaxLabel

SetInit ==
    /\ w = 0
    /\ h = 0
    /\ img = EmptyMap
    /\ labels = EmptyMap
    /\ set = EmptyMap
    /\ objs = EmptyMap
    /\ next_label = default_label + 1
    /\ pc = "set"
    /\ x = 0
    /\ y = 0
    /\ ret = NoRet
    /\ outline = idle
    /\ seg = idle

SetAdd ==
    /\ pc = "set"
    /\ \E l \in SetLabels :
          /\ set' = add(set, l)
          /\ ret' = Ret("add", l, <<>>, {})
    /\ UNCHANGED <<outline, seg>>
    /\ UNCHANGED <<w, h, img, labels, objs, next_label, pc, x, y>>

\* Blobs joins only labels it has added
SetJoin ==
    /\ pc = "set"
    /\ \E a \in DOMAIN set : \E b \in DOMAIN set :
          /\ set' \in join(set, a, b)
          /\ ret' = Ret("join", <<a, b>>, <<>>, {})
    /\ UNCHANGED <<outline, seg>>
    /\ UNCHANGED <<w, h, img, labels, objs, next_label, pc, x, y>>

SetFind ==
    /\ pc = "set"
    /\ \E l \in SetLabels \cup {default_label} :
          /\ ret' = Ret("find", l, find(set, l), {})
          /\ set' = compress(set, l)
    /\ UNCHANGED <<outline, seg>>
    /\ UNCHANGED <<w, h, img, labels, objs, next_label, pc, x, y>>

SetNext ==
    \/ SetAdd
    \/ SetJoin
    \/ SetFind

SpecSet == SetInit /\ [][SetNext]_vars

--------------------------------------------------------------------------
\* Connected components of the image, from the pixels alone

Constructed == pc = "done" /\ ret.op = "none"

\* b is the left, upper-left, up or upper-right neighbour of a
EarlierNeighbour(a, b) ==
    \/ b.x = a.x - 1 /\ b.y = a.y
    \/ b.x = a.x - 1 /\ b.y = a.y - 1
    \/ b.x = a.x /\ b.y = a.y - 1
    \/ b.x = a.x + 1 /\ b.y = a.y - 1

Linked(a, b) ==
    /\ img[a.y][a.x] = img[b.y][b.x]
    /\ EarlierNeighbour(a, b) \/ EarlierNeighbour(b, a)

RECURSIVE Reach(_)
Reach(S) ==
    LET T == S \cup {c \in Cells : \E s \in S : Linked(s, c)}
    IN IF T = S THEN S ELSE Reach(T)

Component(c) == Reach({c})

RowMajorLeq(a, b) == a = b \/ CoordLess(a, b)

\* C1: after both passes, two pixels linked by a chain of same-color
\* neighbouring pixels have the same label.
C1_LabelingSoundness ==
    Constructed =>
        \A a \in Cells : \A b \in Component(a) : label(a) = label(b)

\* A finished labeling in which two provisional labels had to be merged
C1_Witness ==
    /\ Constructed
    /\ \E l \in DOMAIN set : set[l] # l
    /\ \E a \in Cells : \E b \in Component(a) : a.y = b.y /\ a.x + 1 < b.x

\* C2: after construction, pixels not linked by any same-color chain have
\* different labels, and every component has its own registry entry.
C2_NoOverMerging ==
    Constructed =>
        /\ \A a \in Cells : \A b \in Cells \ Component(a) : label(a) # label(b)
        /\ \A a \in Cells : label(a) \in DOMAIN objs
        /\ Cardinality(DOMAIN objs) = Cardinality({Component(c) : c \in Cells})

\* Two separate components of one color, and a pixel of another color
C2_Witness ==
    /\ Constructed
    /\ \E a \in Cells : \E b \in Cells \ Component(a) :
          img[a.y][a.x] = img[b.y][b.x]
    /\ \E a, b \in Cells : img[a.y][a.x] # img[b.y][b.x]

\* C3: after construction the registry keys are exactly the labels in the
\* grid, and an entry holds the first and the last pixel, in row-major
\* order, that carry its label.
C3_RegistryContent ==
    Constructed =>
        /\ DOMAIN objs = {label(c) : c \in Cells}
        /\ \A L \in DOMAIN objs :
              LET px == {c \in Cells : label(c) = L} IN
              /\ objs[L].first \in px
              /\ objs[L].last \in px
              /\ \A c \in px : RowMajorLeq(objs[L].first, c)
              /\ \A c \in px : RowMajorLeq(c, objs[L].last)

\* An object of three pixels or more next to other objects
C3_Witness ==
    /\ Constructed
    /\ Cardinality(DOMAIN objs) >= 2
    /\ \E L \in DOMAIN objs :
          Cardinality({c \in Cells : label(c) = L}) >= 3

\* C4: in every state, during and after the resolution pass, every entry
\* has first.y <= last.y, and first.x <= last.x when the rows are equal.
C4_RegistryOrdering ==
    \A k \in DOMAIN objs :
        /\ objs[k].first.y <= objs[k].last.y
        /\ objs[k].first.y = objs[k].last.y => objs[k].first.x <= objs[k].last.x

\* In the middle of the resolution pass, an entry seen twice in one row and
\* an entry seen in two rows
C4_Witness ==
    /\ pc = "resolve"
    /\ \E k \in DOMAIN objs :
          objs[k].first.y = objs[k].last.y /\ objs[k].first.x < objs[k].last.x
    /\ \E k \in DOMAIN objs :
          objs[k].first.y < objs[k].last.y /\ objs[k].first.x > objs[k].last.x

\* C5: after construction every registry key is its own representative,
\* every label in the grid is a key, and no merged-away label is a key.
C5_KeysAreRepresentatives ==
    Constructed =>
        /\ \A k \in DOMAIN objs : find(set, k) = k
        /\ \A c \in Cells : label(c) \in DOMAIN objs
        /\ \A l \in DOMAIN set : find(set, l) # l => l \notin DOMAIN objs

\* A finished labeling with a provisional label that was merged away
C5_Witness ==
    /\ Constructed
    /\ \E l \in DOMAIN set : find(set, l) # l
    /\ Cardinality(DOMAIN objs) >= 2

\* What a scan of the whole registry, filtered by the rectangle, returns
RECURSIVE startInFullScan(_, _, _, _)
startInFullScan(keys, p1, p2, subset) ==
    IF keys = <<>> THEN subset
    ELSE LET f == objs[Head(keys)].first IN
         IF firstInRect(f, p1, p2)
         THEN startInFullScan(Tail(keys), p1, p2, Append(subset, f))
         ELSE startInFullScan(Tail(keys), p1, p2, subset)

\* C6: startIn(p1, p2) returns exactly what a full scan of the registry
\* filtered by the rectangle returns, whatever representative the
\* union-find picked for a merged class.
C6_StartInIsFullScan ==
    ret.op = "startIn" =>
        ret.val = startInFullScan(sortedKeys(DOMAIN objs),
                                  ret.arg[1], ret.arg[2], <<>>)

SeqRange(sq) == {sq[i] : i \in 1 .. Len(sq)}

RectSet(p1, p2) ==
    {c \in Cells : p1.x <= c.x /\ c.x < p2.x /\ p1.y <= c.y /\ c.y < p2.y}

\* C7: for a rectangle [p1, p2) inside the grid, in(p1, p2) returns the
\* firstSeen of every label that occurs in the rectangle, once each, and
\* nothing else.
C7_InReportsEachLabelOnce ==
    ret.op = "in" =>
        LET labs == {label(c) : c \in RectSet(ret.arg[1], ret.arg[2])}
                        \ {default_label}
        IN /\ labs \subseteq DOMAIN objs
           /\ SeqRange(ret.val) = {objs[l].first : l \in labs}
           /\ Len(ret.val) = Cardinality(labs)

\* A rectangle that holds two objects, one of them at several pixels, and
\* leaves a third object out
C7_Witness ==
    /\ ret.op = "in"
    /\ Len(ret.val) = 2
    /\ Cardinality(RectSet(ret.arg[1], ret.arg[2])) >= 4
    /\ Cardinality(DOMAIN objs) >= 3

\* C8: label(p) is the label stored at p inside the grid, and the
\* background label, with no read of the label grid, outside it.
C8_LabelBoundsChecked ==
    ret.op = "label" =>
        IF inBounds(ret.arg)
        THEN ret.val = labels[ret.arg.y][ret.arg.x] /\ ret.reads = {ret.arg}
        ELSE ret.val = default_label /\ ret.reads = {}

\* label asked for the point just past the right or the bottom edge
C8_Witness ==
    /\ ret.op = "label"
    /\ w > 0 /\ h > 0
    /\ \/ ret.arg.x = w /\ ret.arg.y \in 0 .. (h - 1)
       \/ ret.arg.y = h /\ ret.arg.x \in 0 .. (w - 1)
    /\ ret.val = default_label

\* C9: object(label) returns the stored pair for a registry key, and for
\* any other label a pair of the invalid coordinate, which no real object
\* has.
C9_AbsentObjectIsSentinel ==
    ret.op = "object" =>
        IF ret.arg \in DOMAIN objs
        THEN ret.val = objs[ret.arg]
        ELSE /\ ret.val = CoordPair(default_coord, default_coord)
             /\ \A k \in DOMAIN objs : objs[k] # ret.val

\* C9, its last part alone: the pair returned for an absent label is the
\* pair of no real object.
C9_AbsentObjectIsDistinguishable ==
    ret.op = "object" /\ ret.arg \notin DOMAIN objs =>
        \A k \in DOMAIN objs : objs[k] # ret.val

\* C10: once a and b are joined, find(a) = find(b) in every later state,
\* whatever is added, joined or found afterwards.
C10_JoinIsPermanent ==
    /\ [](ret.op = "join" => find(set, ret.arg[1]) = find(set, ret.arg[2]))
    /\ [][\A a \in DOMAIN set : \A b \in DOMAIN set :
             find(set, a) = find(set, b) => find(set', a) = find(set', b)]_vars

\* A find, with path compression, after two joins have left two classes
C10_Witness ==
    /\ ret.op = "find"
    /\ ret.val # notfound
    /\ Cardinality({l \in DOMAIN set : set[l] # l}) >= 2
    /\ Cardinality({l \in DOMAIN set : set[l] = l}) >= 2

--------------------------------------------------------------------------
\* The assignment pass, pixel by pixel

\* The pixel at (x, y) has no same-color neighbour among the pixels the
\* raster scan has already visited
NoMatchingVisitedNeighbour ==
    \A c \in Cells :
        EarlierNeighbour(Coord(x, y), c) => img[c.y][c.x] # img[y][x]

\* C20: in the assignment pass a pixel with no matching already-visited
\* neighbour receives a label that no earlier pixel holds and that the
\* union-find has never seen, and the union-find knows that label as soon
\* as the step for this pixel is over.
C20_FreshLabelRegistered ==
    [][(pc = "assign" /\ NoMatchingVisitedNeighbour) =>
          /\ labels'[y][x] # default_label
          /\ labels'[y][x] \notin {labels[c.y][c.x] : c \in Cells}
          /\ labels'[y][x] \notin DOMAIN set
          /\ labels'[y][x] \in DOMAIN set'
          /\ find(set', labels'[y][x]) # notfound]_vars

\* A pixel away from the origin has opened a second component
C20_Witness ==
    /\ next_label >= 3
    /\ \E c \in Cells :
          /\ c # CoordZero
          /\ labels[c.y][c.x] = next_label - 1
          /\ next_label - 1 \in DOMAIN set
          /\ \A d \in Cells : EarlierNeighbour(c, d) => img[d.y][d.x] # img[c.y][c.x]

--------------------------------------------------------------------------
\* The neighbours of the pixel the assignment pass stands at whose label
\* the neighbour loop reads
labelsRead ==
    {k \in 1 .. 4 : sameColorNeighbour(points(x, y)[k], color(Coord(x, y)))}

\* The neighbours inside the image that have the color of the pixel
insideSameColor ==
    {k \in 1 .. 4 : LET pt == points(x, y)[k] IN
        pt \in Cells /\ img[pt.y][pt.x] = img[y][x]}

\* C21: in the assignment pass a neighbour outside the image never matches,
\* not even for a white pixel (the color reported outside the image): no
\* cell outside the label grid is read, the neighbours counted are those
\* inside the image of the pixel's color, and the label adopted and the
\* labels joined are labels of these.
C21_OutsideNeverMatches ==
    pc = "assign" =>
        /\ \A k \in labelsRead : points(x, y)[k] \in Cells
        /\ LET r == scan(points(x, y), color(Coord(x, y)), labels[y][x],
                         0, <<>>)
               inside == {labels[points(x, y)[k].y][points(x, y)[k].x] :
                             k \in insideSameColor}
           IN /\ r.count = Cardinality(insideSameColor)
              /\ r.count > 0 => r.label \in inside
              /\ \A k \in 1 .. Len(r.equivalent_labels) :
                    r.equivalent_labels[k] \in inside

\* The pass stands at a white pixel in the last column of the second row
\* whose neighbours inside the image are not white
C21_Witness ==
    /\ pc = "assign"
    /\ w >= 2
    /\ y = 1
    /\ x = w - 1
    /\ img[y][x] = white
    /\ insideSameColor = {}
    /\ labels[0][0] # default_label

\* C26: after construction label(p) is not 0 for every pixel p of the
\* image, whatever its color and in the first row and the first column
\* too, so that label(p) is 0 exactly for the points outside the image.
C26_EveryPixelLabeled ==
    Constructed =>
        \A pt \in ProbePoints : (label(pt) = default_label) <=> ~inBounds(pt)

\* A finished labeling of an image of two rows or more with a white pixel
\* in the first column, below the first row
C26_Witness ==
    /\ Constructed
    /\ w >= 2
    /\ h >= 2
    /\ \E py \in 1 .. (h - 1) : img[py][0] = white /\ labels[py][0] > 1

---------------------------------------------------------------------------
\* Paths handed to the line segmenter (std::vector<Coord>).  A path is
\* described by its shape and its number of points n; at(p, k, g) is
\* path[k].  The point of an index past the end of the vector is whatever
\* the memory behind the vector holds: g.

\* Bounds of the model
MaxFree == 3
MaxShort == 12

\* Program constants
minLengthHalving == 10
minLengthExtending == 100
linejump == 1
maxLookAhead == 25

\* The boundary of the square with corners (0,0), (a,0), (a,a), (0,a),
\* walked from (0,0) along the x axis first; t counts the steps
ringPoint(a, t) ==
    IF a = 0 THEN Coord(0, 0)
    ELSE LET m == t % (4 * a) IN
         IF m <= a THEN Coord(m, 0)
         ELSE IF m <= 2 * a THEN Coord(a, m - a)
         ELSE IF m <= 3 * a THEN Coord(3 * a - m, a)
         ELSE Coord(0, 4 * a - m)

\* The saw with points that come again a window of n/8 points later: the
\* point in the middle and the last one, which close a window of the
\* searches on the point it starts from, and runs of 19 points, which do
\* so for every window that starts in them
echoPoint(n, k) ==
    LET window == n \div 8
        r == k - (3 * window + 1)
    IN IF k = n \div 2 THEN Coord(0, 0)
       ELSE IF k = n - 1 THEN Coord(window - 1, (window - 1) % 2)
       ELSE IF r >= 0 /\ r % (window + 20) < 19 /\ k < n - 2
            THEN Coord(k - window, (k - window) % 2)
       ELSE Coord(k, k % 2)

at(p, k, g) ==
    IF k < 0 \/ k >= p.n THEN g
    ELSE CASE p.shape = "free" -> p.pts[k + 1]
           [] p.shape = "diag" -> Coord(k, k)
           [] p.shape = "saw" -> Coord(k, k % 2)
           [] p.shape = "echo" -> echoPoint(p.n, k)
           [] p.shape = "ell" -> ringPoint(p.n \div 2, k + p.off)
           [] p.shape = "square" -> ringPoint(p.n \div 4, k + p.off)
           [] p.shape = "laps" -> ringPoint(9, k + p.off)

--------------------------------------------------------------------------
\* math.h: distances, mean and standard deviation.  All quantities are
\* kept exact: a distance from a point to the chord is cross / sqrt(D),
\* with cross the magnitude of the cross product and D the squared length
\* of the chord, so every comparison of the segmenter is a comparison of
\* integers.

abs(v) == IF v < 0 THEN 0 - v ELSE v

\* distance(p1, p2) squared
distance2(p1, p2) ==
    (p2.x - p1.x) * (p2.x - p1.x) + (p2.y - p1.y) * (p2.y - p1.y)

\* distance(p1, p2, p3) times distance(p1, p2): p3 against the line
\* through p1 and p2
cross(p1, p2, p3) ==
    abs((p2.x - p1.x) * (p1.y - p3.y) - (p1.x - p3.x) * (p2.y - p1.y))

\* a/b < c/d for a, c >= 0 and b, d > 0
RECURSIVE fracLess(_, _, _, _)
fracLess(a, b, c, d) ==
    IF a \div b # c \div d THEN a \div b < c \div d
    ELSE IF c % d = 0 THEN FALSE
    ELSE IF a % b = 0 THEN TRUE
    ELSE fracLess(d, c % d, b, a % b)

\* sqrt(v) * a < r for v, r >= 0 and a > 0
rootLess(v, a, r) ==
    LET t == r \div a
        m == r % a
    IN IF t > 0 /\ v \div t < t THEN TRUE
       ELSE IF v - t * t > 2 * t THEN FALSE
       ELSE a * a * (v - t * t) < 2 * a * t * m + m * m

\* What average and stdev make of an empty vector: 0, or 0.0/0
EmptyMeans == {"zero", "nan"}

\* What a read past the end of the vector may find
Garbage == {Coord(0, 0), Coord(7, -3)}

--------------------------------------------------------------------------
\* line.h, line.cpp

\* Line(p1, p2) and Line(p1, p2, length); the length is kept squared
Line(p1, p2) == [p1 |-> p1, p2 |-> p2, length2 |-> distance2(p1, p2)]

\* maxError and the values of lineError are fractions num/den; a value is
\* undef when the division that yields it has no finite result (a chord
\* of length 0, the mean of no distance taken as 0.0/0)
Error(num, den) ==
    [undef |-> FALSE, num |-> num, den |-> den, diverged |-> FALSE]

ErrorUndef == [undef |-> TRUE, num |-> 0, den |-> 1, diverged |-> FALSE]

\* operator< on doubles: false as soon as the left side is not finite
errLess(e1, e2) ==
    /\ ~e1.undef
    /\ ~e2.undef
    /\ fracLess(e1.num, e1.den, e2.num, e2.den)

\* for (k = first; k != j; k = (k+1)%path.size()): the index k of round t
visited(p, first, t) == IF t = 0 THEN first ELSE (first + t) % p.n

\* The number of rounds of that loop: the first t that finds k = j.
\* From round 1 on k runs through the residues first+1, first+2, ... of
\* path.size(); a j that is none of them is never met: -1.
rounds(p, first, j) ==
    IF first = j THEN 0
    ELSE IF j < 0 \/ j >= p.n THEN 0 - 1
    ELSE IF (j - first) % p.n = 0 THEN p.n
    ELSE (j - first) % p.n

\* dist.push_back(distance(pi, pj, path[k])) for the rounds lo .. hi-1.
\* The vector dist is kept as its sum (sq false) and its sum of squares
\* (sq true), both scaled by the length of the chord.
RECURSIVE pushDist(_, _, _, _, _, _, _, _)
pushDist(p, pi, pj, first, g, sq, lo, hi) ==
    IF hi <= lo THEN 0
    ELSE IF hi = lo + 1
    THEN IF sq
         THEN cross(pi, pj, at(p, visited(p, first, lo), g))
              * cross(pi, pj, at(p, visited(p, first, lo), g))
         ELSE cross(pi, pj, at(p, visited(p, first, lo), g))
    ELSE pushDist(p, pi, pj, first, g, sq, lo, (lo + hi) \div 2)
         + pushDist(p, pi, pj, first, g, sq, (lo + hi) \div 2, hi)

\* The whole loop from k = first up to j; the squares only where the
\* standard deviation is asked for
distances(p, pi, pj, first, j, g, sq) ==
    LET n == rounds(p, first, j) IN
    IF n < 0
    THEN [cnt |-> 0, sum |-> 0, squares |-> 0, oob |-> FALSE, diverged |-> TRUE]
    ELSE [cnt |-> n,
          sum |-> pushDist(p, pi, pj, first, g, FALSE, 0, n),
          squares |-> IF sq THEN pushDist(p, pi, pj, first, g, TRUE, 0, n)
                      ELSE 0,
          oob |-> n > 0 /\ first >= p.n,
          diverged |-> FALSE]

\* The mean and the deviation compared the wrong way round
highAverageAndDeviation(d, D, maxError, m) ==
    IF d.cnt = 0
    THEN m = "zero" /\ maxError.num > 0
    ELSE /\ fracLess(maxError.num, maxError.den, d.sum, d.cnt * D)
         /\ ~rootLess(d.cnt * d.squares - d.sum * d.sum, 2 * maxError.den,
                      d.cnt * D * maxError.num)

\* avg < avgThresh && stddev < stddevThresh, for a chord of squared
\* length D > 0 and dist = d
lowAverageAndDeviation(d, D, maxError, m) ==
    IF d.cnt = 0
    THEN m = "zero" /\ maxError.num > 0
    ELSE /\ fracLess(d.sum, d.cnt * D, maxError.num, maxError.den)
         /\ rootLess(d.cnt * d.squares - d.sum * d.sum, 2 * maxError.den,
                     d.cnt * D * maxError.num)

\* The indices are taken as they come: the bounds check is left out
isLineUnguarded(p, i, j, maxError, g, m) ==
    LET d == distances(p, at(p, i, g), at(p, j, g), i + 1, j, g, TRUE)
        D == distance2(at(p, i, g), at(p, j, g))
    IN [value |-> ~d.diverged /\ D > 0
                  /\ lowAverageAndDeviation(d, D, maxError, m),
        cnt |-> d.cnt, oob |-> d.oob, diverged |-> d.diverged]

isLine(p, i, j, maxError, g, m) ==
    IF i < 0 \/ j < 0 \/ i >= p.n \/ j >= p.n
    THEN [value |-> FALSE, cnt |-> 0, oob |-> FALSE, diverged |-> FALSE]
    ELSE LET d == distances(p, at(p, i, g), at(p, j, g), i + 1, j, g, TRUE)
             D == distance2(at(p, i, g), at(p, j, g))
         IN [value |-> ~d.diverged /\ D > 0
                       /\ lowAverageAndDeviation(d, D, maxError, m),
             cnt |-> d.cnt, oob |-> d.oob, diverged |-> d.diverged]

\* lineError up to its return statement: dist, and the squared length of
\* the chord
lineDistances(p, i, j) ==
    [dist |-> distances(p, at(p, i % p.n, CoordZero), at(p, j % p.n, CoordZero),
                        ((i % p.n) + 1) % p.n, j % p.n, CoordZero, FALSE),
     D |-> distance2(at(p, i % p.n, CoordZero), at(p, j % p.n, CoordZero))]

\* return average(dist)/distance(path[i], path[j]);
lineErrorOf(v, m) ==
    IF v.dist.diverged THEN [ErrorUndef EXCEPT !.diverged = TRUE]
    ELSE IF v.D = 0 THEN ErrorUndef
    ELSE IF v.dist.cnt = 0
         THEN IF m = "zero" THEN Error(0, 1) ELSE ErrorUndef
         ELSE Error(v.dist.sum, v.dist.cnt * v.D)

\* The path is not empty
lineError(p, i, j, m) == lineErrorOf(lineDistances(p, i, j), m)

--------------------------------------------------------------------------
\* The two line searches, one loop round per step.  seg holds the
\* arguments and the locals of the call in progress; ranges remembers, for
\* every Line pushed, the index the search stood at and the length it
\* settled on; oob and diverged remember a read behind the path and a
\* loop that cannot end; steps counts the steps taken; other is what the
\* other search has returned for the same arguments, once it has run;
\* means is what the build may still make of the mean of an empty dist.

Call(fn, p, maxError) ==
    [pc |-> "enter", fn |-> fn, path |-> p, maxError |-> maxError,
     length |-> 0, firstStart |-> 0 - 1, firstEnd |-> 0, i |-> 0,
     largerLength |-> 0, increasing |-> 0, currentError |-> Error(0, 1),
     lines |-> <<>>, ranges |-> <<>>,
     oob |-> FALSE, diverged |-> FALSE, steps |-> 0,
     other |-> {}, means |-> EmptyMeans]

size == seg.path.n

\* average(dist) of an empty dist is what the build makes of it, the same
\* in every call: the first empty dist settles which
settled(s, cnt, m) == IF cnt = 0 THEN {m} ELSE s.means

path(k, g) == at(seg.path, k, g)

\* return lines;
Return(s) == [s EXCEPT !.pc = "done", !.steps = s.steps + 1]

\* The loop goes on from pc if cond holds, and the function returns if not
Loop(s, cond, nextpc) ==
    IF cond THEN [s EXCEPT !.pc = nextpc, !.steps = s.steps + 1]
    ELSE Return(s)

\* if (path.empty()) return lines;
Enter ==
    /\ seg.pc = "enter"
    /\ seg' = IF size = 0 THEN Return(seg)
              ELSE IF seg.fn = "HalvingExtending"
                   THEN Loop(seg, TRUE, "whole")
                   ELSE Loop([seg EXCEPT !.length = size \div 2], TRUE, "first")
    /\ UNCHANGED <<blobs, outline>>

\* The whole path is pushed as a line, and the search goes on
WholeNoReturn ==
    /\ seg.pc = "whole"
    /\ \E g \in Garbage : \E m \in seg.means :
          LET r == isLine(seg.path, 0, size - 1, seg.maxError, g, m)
              s == [seg EXCEPT !.oob = seg.oob \/ r.oob,
                               !.diverged = seg.diverged \/ r.diverged,
                               !.means = settled(seg, r.cnt, m)]
          IN seg' =
               IF r.value /\ distance2(path(0, g), path(size - 1, g))
                               > minLengthHalving * minLengthHalving
               THEN Loop([s EXCEPT
                       !.length = size \div 2,
                       !.lines = Append(s.lines, Line(path(0, g), path(size - 1, g))),
                       !.ranges = Append(s.ranges, [start |-> 0, len |-> size - 1])],
                       TRUE, "first")
               ELSE Loop([s EXCEPT !.length = size \div 2], TRUE, "first")
    /\ UNCHANGED <<blobs, outline>>

\* findLinesHalvingExtending: if the whole thing is a line, we're done
Whole ==
    /\ seg.pc = "whole"
    /\ \E g \in Garbage : \E m \in seg.means :
          LET r == isLine(seg.path, 0, size - 1, seg.maxError, g, m)
              s == [seg EXCEPT !.oob = seg.oob \/ r.oob,
                               !.diverged = seg.diverged \/ r.diverged,
                               !.means = settled(seg, r.cnt, m)]
          IN seg' =
               IF r.value /\ distance2(path(0, g), path(size - 1, g))
                               > minLengthHalving * minLengthHalving
               THEN Return([s EXCEPT
                       !.lines = Append(s.lines, Line(path(0, g), path(size - 1, g))),
                       !.ranges = Append(s.ranges, [start |-> 0, len |-> size - 1])])
               ELSE Loop([s EXCEPT !.length = size \div 2], TRUE, "first")
    /\ UNCHANGED <<blobs, outline>>

\* After the search for the first line: nothing found, return; if not,
\* look for a second line from firstEnd up to size+firstStart
SecondHalving(s) ==
    IF s.firstStart = 0 - 1 THEN Return(s)
    ELSE Loop([s EXCEPT !.i = s.firstEnd],
              s.firstEnd < s.path.n + s.firstStart, "second")

\* findLinesHalvingExtending, first loop: one start index i
FirstHalving ==
    /\ seg.pc = "first"
    /\ seg.fn = "HalvingExtending"
    /\ \E g \in Garbage : \E m \in seg.means :
          LET r == isLine(seg.path, seg.i, seg.i + seg.length, seg.maxError, g, m)
              s == [seg EXCEPT !.oob = seg.oob \/ r.oob,
                               !.diverged = seg.diverged \/ r.diverged,
                               !.means = settled(seg, r.cnt, m)]
          IN seg' =
               IF seg.length < minLengthHalving THEN SecondHalving(seg)
               ELSE IF r.value
               THEN Loop([s EXCEPT !.largerLength = s.length + 1], TRUE,
                         "firstExtend")
               ELSE IF s.i + 1 < size
               THEN Loop([s EXCEPT !.length = s.length \div 2, !.i = s.i + 1],
                         TRUE, "first")
               ELSE SecondHalving([s EXCEPT !.length = s.length \div 2,
                                            !.i = s.i + 1])
    /\ UNCHANGED <<blobs, outline>>

\* The loop that extends a line, without the step back to the last end
\* that was accepted
ExtendHalvingNoBackOff ==
    /\ seg.pc \in {"firstExtend", "secondExtend"}
    /\ seg.fn = "HalvingExtending"
    /\ \E g \in Garbage : \E m \in seg.means :
          LET r == isLine(seg.path, seg.i, seg.i + seg.largerLength,
                          seg.maxError, g, m)
              s == [seg EXCEPT !.oob = seg.oob \/ r.oob,
                               !.diverged = seg.diverged \/ r.diverged,
                               !.means = settled(seg, r.cnt, m)]
              len == seg.largerLength
          IN seg' =
               IF seg.i + seg.largerLength < size /\ r.value
               THEN Loop([s EXCEPT !.largerLength = s.largerLength + 1], TRUE,
                         seg.pc)
               ELSE IF seg.pc = "firstExtend"
               THEN SecondHalving(
                      [(IF seg.i + seg.largerLength < size THEN s ELSE seg) EXCEPT
                         !.largerLength = len,
                         !.firstStart = seg.i,
                         !.firstEnd = (seg.i + len) % size,
                         !.lines = Append(seg.lines,
                                     Line(path(seg.i, g), path((seg.i + len) % size, g))),
                         !.ranges = Append(seg.ranges, [start |-> seg.i, len |-> len])])
               ELSE Return(
                      [(IF seg.i + seg.largerLength < size THEN s ELSE seg) EXCEPT
                         !.largerLength = len,
                         !.i = seg.i + len,
                         !.lines = Append(seg.lines,
                                     Line(path(seg.i, g), path((seg.i + len) % size, g))),
                         !.ranges = Append(seg.ranges, [start |-> seg.i, len |-> len])])
    /\ UNCHANGED <<blobs, outline>>

\* for ( ; i+largerLength < size; ++largerLength) if (!isLine(...)) break;
\* one round, and what follows the loop when it ends
ExtendHalving ==
    /\ seg.pc \in {"firstExtend", "secondExtend"}
    /\ seg.fn = "HalvingExtending"
    /\ \E g \in Garbage : \E m \in seg.means :
          LET r == isLine(seg.path, seg.i, seg.i + seg.largerLength,
                          seg.maxError, g, m)
              s == [seg EXCEPT !.oob = seg.oob \/ r.oob,
                               !.diverged = seg.diverged \/ r.diverged,
                               !.means = settled(seg, r.cnt, m)]
              len == seg.largerLength - 1
          IN seg' =
               IF seg.i + seg.largerLength < size /\ r.value
               THEN Loop([s EXCEPT !.largerLength = s.largerLength + 1], TRUE,
                         seg.pc)
               ELSE IF seg.pc = "firstExtend"
               THEN SecondHalving(
                      [(IF seg.i + seg.largerLength < size THEN s ELSE seg) EXCEPT
                         !.largerLength = len,
                         !.firstStart = seg.i,
                         !.firstEnd = (seg.i + len) % size,
                         !.lines = Append(seg.lines,
                                     Line(path(seg.i, g), path((seg.i + len) % size, g))),
                         !.ranges = Append(seg.ranges, [start |-> seg.i, len |-> len])])
               ELSE Return(
                      [(IF seg.i + seg.largerLength < size THEN s ELSE seg) EXCEPT
                         !.largerLength = len,
                         !.i = seg.i + len,
                         !.lines = Append(seg.lines,
                                     Line(path(seg.i, g), path((seg.i + len) % size, g))),
                         !.ranges = Append(seg.ranges, [start |-> seg.i, len |-> len])])
    /\ UNCHANGED <<blobs, outline>>

\* findLinesHalvingExtending, second loop: one start index i
SecondHalvingStep ==
    /\ seg.pc = "second"
    /\ seg.fn = "HalvingExtending"
    /\ \E g \in Garbage : \E m \in seg.means :
          LET r == isLine(seg.path, seg.i, seg.i + minLengthHalving,
                          seg.maxError, g, m)
              s == [seg EXCEPT !.oob = seg.oob \/ r.oob,
                               !.diverged = seg.diverged \/ r.diverged,
                               !.means = settled(seg, r.cnt, m)]
          IN seg' =
               IF r.value
               THEN Loop([s EXCEPT !.largerLength = minLengthHalving + 1], TRUE,
                         "secondExtend")
               ELSE Loop([s EXCEPT !.i = s.i + 1],
                         s.i + 1 < size + s.firstStart, "second")
    /\ UNCHANGED <<blobs, outline>>

\* After the search for the first line of findLinesExtendingDecreasingError:
\* nothing found, return; if not, halve the length once more and look for
\* more lines from firstEnd up to size+firstStart
SecondExtending(s) ==
    IF s.firstStart = 0 - 1 THEN Return(s)
    ELSE IF s.length \div 2 < minLengthExtending
    THEN Return([s EXCEPT !.length = s.length \div 2])
    ELSE Loop([s EXCEPT !.length = s.length \div 2, !.i = s.firstEnd],
              s.firstEnd < s.path.n + s.firstStart, "second")

\* The first loop without its test of the length against minLength
FirstExtendingAnyLength ==
    /\ seg.pc = "first"
    /\ seg.fn = "ExtendingDecreasingError"
    /\ LET v == lineDistances(seg.path, seg.i, seg.i + seg.length) IN
       \E m \in seg.means :
          LET e == lineErrorOf(v, m)
              s == [seg EXCEPT !.diverged = seg.diverged \/ e.diverged,
                               !.means = settled(seg, v.dist.cnt, m)]
          IN seg' =
               IF errLess(e, seg.maxError)
               THEN Loop([s EXCEPT !.currentError = e,
                                   !.largerLength = s.length + 1,
                                   !.increasing = 0], TRUE, "firstLarger")
               ELSE IF s.i + 1 < size
               THEN Loop([s EXCEPT !.length = s.length \div 2, !.i = s.i + 1],
                         TRUE, "first")
               ELSE SecondExtending([s EXCEPT !.length = s.length \div 2,
                                              !.i = s.i + 1])
    /\ UNCHANGED <<blobs, outline>>

\* findLinesExtendingDecreasingError, first loop: one start index i
FirstExtending ==
    /\ seg.pc = "first"
    /\ seg.fn = "ExtendingDecreasingError"
    /\ LET v == lineDistances(seg.path, seg.i, seg.i + seg.length) IN
       \E m \in seg.means :
          LET e == lineErrorOf(v, m)
              s == [seg EXCEPT !.diverged = seg.diverged \/ e.diverged,
                               !.means = settled(seg, v.dist.cnt, m)]
          IN seg' =
               IF seg.length < minLengthExtending THEN SecondExtending(seg)
               ELSE IF errLess(e, seg.maxError)
               THEN Loop([s EXCEPT !.currentError = e,
                                   !.largerLength = s.length + 1,
                                   !.increasing = 0], TRUE, "firstLarger")
               ELSE IF s.i + 1 < size
               THEN Loop([s EXCEPT !.length = s.length \div 2, !.i = s.i + 1],
                         TRUE, "first")
               ELSE SecondExtending([s EXCEPT !.length = s.length \div 2,
                                              !.i = s.i + 1])
    /\ UNCHANGED <<blobs, outline>>

\* The length is returned as the loop left it: the points tried after the
\* last lower error are not taken off
LargerNoRollBack(s) ==
    LET len == s.largerLength
        t == [s EXCEPT
                !.largerLength = len,
                !.lines = Append(s.lines,
                            Line(at(s.path, s.i % s.path.n, CoordZero),
                                 at(s.path, (s.i + len) % s.path.n, CoordZero))),
                !.ranges = Append(s.ranges, [start |-> s.i, len |-> len])]
    IN IF s.pc = "firstLarger"
       THEN SecondExtending([t EXCEPT !.firstStart = s.i,
                                      !.firstEnd = (s.i + len) % s.path.n])
       ELSE Loop([t EXCEPT !.i = s.i + len + linejump],
                 s.i + len + linejump < s.path.n + s.firstStart, "second")

\* findLargerLength returns largerLength - (increasing+1) to the first
\* loop, which pushes its line and breaks, or to the second loop, which
\* pushes its line and goes on behind it
Larger(s) ==
    LET len == s.largerLength - (s.increasing + 1)
        t == [s EXCEPT
                !.largerLength = len,
                !.lines = Append(s.lines,
                            Line(at(s.path, s.i % s.path.n, CoordZero),
                                 at(s.path, (s.i + len) % s.path.n, CoordZero))),
                !.ranges = Append(s.ranges, [start |-> s.i, len |-> len])]
    IN IF s.pc = "firstLarger"
       THEN SecondExtending([t EXCEPT !.firstStart = s.i,
                                      !.firstEnd = (s.i + len) % s.path.n])
       ELSE Loop([t EXCEPT !.i = s.i + len + linejump],
                 s.i + len + linejump < s.path.n + s.firstStart, "second")

\* findLargerLength(path, currentError, i, length, maxLookAhead): one round
\* of for ( ; (start+largerLength)%size < start; ++largerLength)
findLargerLength ==
    /\ seg.pc \in {"firstLarger", "secondLarger"}
    /\ LET v == lineDistances(seg.path, seg.i, seg.i + seg.largerLength) IN
       \E m \in seg.means :
          LET newError == lineErrorOf(v, m)
              s == [seg EXCEPT !.diverged = seg.diverged \/ newError.diverged,
                               !.means = settled(seg, v.dist.cnt, m)]
          IN seg' =
               IF ~((seg.i + seg.largerLength) % size < seg.i) THEN Larger(seg)
               ELSE IF errLess(newError, seg.currentError)
               THEN Loop([s EXCEPT !.currentError = newError,
                                   !.increasing = 0,
                                   !.largerLength = s.largerLength + 1],
                         TRUE, seg.pc)
               ELSE IF seg.increasing < maxLookAhead
               THEN Loop([s EXCEPT !.increasing = s.increasing + 1,
                                   !.largerLength = s.largerLength + 1],
                         TRUE, seg.pc)
               ELSE Larger(s)
    /\ UNCHANGED <<blobs, outline>>

\* findLinesExtendingDecreasingError, second loop: one start index i
SecondExtendingStep ==
    /\ seg.pc = "second"
    /\ seg.fn = "ExtendingDecreasingError"
    /\ LET v == lineDistances(seg.path, seg.i, seg.i + seg.length) IN
       \E m \in seg.means :
          LET e == lineErrorOf(v, m)
              s == [seg EXCEPT !.diverged = seg.diverged \/ e.diverged,
                               !.means = settled(seg, v.dist.cnt, m)]
          IN seg' =
               IF errLess(e, seg.maxError)
               THEN Loop([s EXCEPT !.currentError = e,
                                   !.largerLength = s.length + 1,
                                   !.increasing = 0], TRUE, "secondLarger")
               ELSE Loop([s EXCEPT !.i = s.i + linejump],
                         s.i + linejump < size + s.firstStart, "second")
    /\ UNCHANGED <<blobs, outline>>

--------------------------------------------------------------------------
\* The line searches on their own: one call of either search on a path

\* Every path of up to MaxFree points on a small grid
FreePoints == {Coord(px, py) : px \in 0 .. 2, py \in 0 .. 1}

FreePaths ==
    {[shape |-> "free", n |-> Len(pts), off |-> 0, pts |-> pts] :
        pts \in UNION {[1 .. k -> FreePoints] : k \in 0 .. MaxFree}}

\* Straight, jagged and cornered paths: a diagonal, a sawtooth, two sides
\* of a square, a whole square, and the square of side 9 walked round and
\* round; the squares from their corner or from three points behind it
Shapes ==
    {[shape |-> "diag", off |-> 0], [shape |-> "saw", off |-> 0]}
    \cup {[shape |-> sh, off |-> o] : sh \in {"ell", "square", "laps"},
                                       o \in {0, 3}}

ShapedPaths(Sizes) ==
    {[shape |-> sh.shape, n |-> n, off |-> sh.off, pts |-> <<>>] :
        sh \in Shapes, n \in Sizes}

\* The sizes around which a search changes its mind, twice and four times
\* its minimum length, and the 36 points of the square of side 9
SizesHalving ==
    (0 .. MaxShort)
    \cup {k * minLengthHalving + d : k \in {2, 4}, d \in {0 - 1, 0, 1}}
    \cup {4 * 9}

SizesExtending ==
    SizesHalving
    \cup {k * minLengthExtending + d : k \in {2, 4}, d \in {0 - 1, 0, 1}}
    \cup {8 * minLengthExtending}

\* A component of 800 points with points that come again
EchoPaths ==
    {[shape |-> "echo", n |-> 8 * minLengthExtending, off |-> 0, pts |-> <<>>]}

\* maxLineError = 0.04, and the two ends of the scale
MaxErrors == {Error(0, 1), Error(1, 25), Error(1, 2)}

LinesInit ==
    /\ w = 0
    /\ h = 0
    /\ img = EmptyMap
    /\ labels = EmptyMap
    /\ set = EmptyMap
    /\ objs = EmptyMap
    /\ next_label = default_label + 1
    /\ pc = "lines"
    /\ x = 0
    /\ y = 0
    /\ ret = NoRet
    /\ outline = idle
    /\ seg \in {Call("HalvingExtending", p, e) :
                   p \in FreePaths \cup ShapedPaths(SizesHalving),
                   e \in MaxErrors}
               \cup {Call("ExtendingDecreasingError", p, e) :
                        p \in FreePaths \cup ShapedPaths(SizesExtending),
                        e \in MaxErrors}
               \cup {Call("ExtendingDecreasingError", p, Error(1, 25)) :
                        p \in EchoPaths}

\* The same path and maxError given to the other search, once
\* findLinesHalvingExtending has returned
SameInput ==
    /\ seg.pc = "done"
    /\ seg.fn = "HalvingExtending"
    /\ seg.other = {}
    /\ seg' = [Call("ExtendingDecreasingError", seg.path, seg.maxError)
                  EXCEPT !.other = {seg.lines}, !.means = seg.means]
    /\ UNCHANGED <<blobs, outline>>

LinesNext ==
    \/ SameInput
    \/ Enter
    \/ Whole
    \/ FirstHalving
    \/ ExtendHalving
    \/ SecondHalvingStep
    \/ FirstExtending
    \/ findLargerLength
    \/ SecondExtendingStep

SpecLines == LinesInit /\ [][LinesNext]_vars

--------------------------------------------------------------------------
\* isLine and lineError called on their own, with any indices

CallsInit ==
    /\ w = 0
    /\ h = 0
    /\ img = EmptyMap
    /\ labels = EmptyMap
    /\ set = EmptyMap
    /\ objs = EmptyMap
    /\ next_label = default_label + 1
    /\ pc = "calls"
    /\ x = 0
    /\ y = 0
    /\ ret = NoRet
    /\ outline = idle
    /\ seg \in {[pc |-> "path", path |-> p] :
                   p \in FreePaths \cup ShapedPaths(0 .. MaxShort)}

\* isLine(path, i, j, maxError), the indices from -1 up to one past the end
CallIsLine ==
    /\ seg.pc = "path"
    /\ \E i \in (0 - 1) .. size : \E j \in (0 - 1) .. size :
       \E maxError \in MaxErrors : \E g \in Garbage : \E m \in EmptyMeans :
          seg' = [pc |-> "isLine", path |-> seg.path, i |-> i, j |-> j,
                  maxError |-> maxError,
                  result |-> isLine(seg.path, i, j, maxError, g, m)]
    /\ UNCHANGED <<blobs, outline>>

\* lineError(path, i, j) on a path that is not empty, the indices up to
\* twice the size
CallLineError ==
    /\ seg.pc = "path"
    /\ size > 0
    /\ \E i \in 0 .. (2 * size - 1) : \E j \in 0 .. (2 * size - 1) :
       \E m \in EmptyMeans :
          seg' = [pc |-> "lineError", path |-> seg.path, i |-> i, j |-> j,
                  maxError |-> Error(0, 1),
                  result |-> lineError(seg.path, i, j, m)]
    /\ UNCHANGED <<blobs, outline>>

CallsNext ==
    \/ CallIsLine
    \/ CallLineError

SpecCalls == CallsInit /\ [][CallsNext]_vars

\* The indices strictly between i and j, walking forward from i and
\* wrapping at the end of the path; all the others if i = j
Between(n, i, j) ==
    {k \in 0 .. (n - 1) :
        /\ k # i % n
        /\ k # j % n
        /\ \/ i % n = j % n
           \/ (k - i) % n < (j - i) % n}

\* The chord from path[i] to path[j] has a length, and every point
\* strictly between i and j lies on the line through it
Collinear(p, i, j) ==
    /\ distance2(at(p, i % p.n, CoordZero), at(p, j % p.n, CoordZero)) > 0
    /\ \A k \in Between(p.n, i, j) :
          cross(at(p, i % p.n, CoordZero), at(p, j % p.n, CoordZero),
                at(p, k, CoordZero)) = 0

InRange(p, i, j) == i >= 0 /\ j >= 0 /\ i < p.n /\ j < p.n

isLineIndices(p, i, j) ==
    {visited(p, i + 1, t) : t \in 0 .. (rounds(p, i + 1, j) - 1)}

\* C25 as stated: for a path of n >= 1 points and i, j in [0, n), the
\* points isLine measures are exactly those strictly between i and j,
\* walking forward and wrapping, and every index it reads is in [0, n),
\* for i = n-1 and for the path of one point too.
C25_IsLineIndexSet ==
    (seg.pc = "isLine" /\ size >= 1 /\ InRange(seg.path, seg.i, seg.j))
      => /\ isLineIndices(seg.path, seg.i, seg.j) = Between(size, seg.i, seg.j)
         /\ seg.result.cnt = Cardinality(Between(size, seg.i, seg.j))
         /\ ~seg.result.oob
         /\ \A k \in isLineIndices(seg.path, seg.i, seg.j) : k >= 0 /\ k < size

--------------------------------------------------------------------------
\* What the line searches return

Returned == seg.pc = "done"

Halving == seg.fn = "HalvingExtending"

Extending == seg.fn = "ExtendingDecreasingError"

\* The segment from the first point of the path to its last
WholeLine == Line(path(0, CoordZero), path(size - 1, CoordZero))

\* C13 as stated: on the diagonal path of N points (k, k), at maxError
\* 0.04, either search returns exactly one segment, from path[0] to
\* path[N-1].
C13_DiagonalOneSegment ==
    (Returned /\ seg.path.shape = "diag" /\ size >= 1
        /\ seg.maxError = Error(1, 25))
      => seg.lines = <<WholeLine>>

Corners == {Coord(0, 0), Coord(9, 0), Coord(9, 9), Coord(0, 9)}

\* C14 as stated: on the boundary of the rectangle with corners (0,0),
\* (9,0), (9,9), (0,9), at maxError 0.04, either search returns between 2
\* and 4 segments, each from a corner to a corner.
C14_RectangleSegments ==
    (Returned /\ seg.path.shape = "laps" /\ size = 36 /\ seg.path.off = 0
        /\ seg.maxError = Error(1, 25))
      => /\ Len(seg.lines) \in 2 .. 4
         /\ \A k \in 1 .. Len(seg.lines) :
               seg.lines[k].p1 \in Corners /\ seg.lines[k].p2 \in Corners

\* C15 as stated: given the same path and maxError, the two searches
\* return the same list of segments.
C15_SameOutput ==
    Returned => \A lines \in seg.other : seg.lines = lines

\* C16 as stated: a path of fewer points than the minimum line length of
\* the search (10, 100), the empty path and the path of one point
\* included, yields the empty list.
C16_ShortPathsEmpty ==
    (Returned /\ \/ Halving /\ size < minLengthHalving
                 \/ Extending /\ size < minLengthExtending)
      => seg.lines = <<>>

\* C16 amended: a path of fewer points than the minimum line length of
\* the search yields the empty list, except that findLinesHalvingExtending
\* returns the one segment from path[0] to path[size-1] where the whole
\* path is a line whose chord is longer than 10; no loop of the call runs
\* on for ever.
C16_ShortPathsEmptyUnlessWhole ==
    /\ (Returned /\ Extending /\ size < minLengthExtending)
         => (seg.lines = <<>> /\ ~seg.diverged)
    /\ (Returned /\ Halving /\ size < minLengthHalving)
         => /\ ~seg.diverged
            /\ seg.lines # <<>> =>
                  /\ seg.lines = <<WholeLine>>
                  /\ WholeLine.length2 > minLengthHalving * minLengthHalving
                  /\ \E g \in Garbage : \E m \in EmptyMeans :
                        isLine(seg.path, 0, size - 1, seg.maxError, g, m).value

\* findLinesExtendingDecreasingError has returned from a path of a few
\* points, after it has halved the length and found it too short
C16_Witness ==
    /\ Returned
    /\ Extending
    /\ size >= 2
    /\ size < minLengthExtending
    /\ seg.steps >= 2
    /\ seg.lines = <<>>

\* C17: findLinesHalvingExtending returns at most two segments; where the
\* whole path is a line with a chord longer than the minimum it returns
\* that one segment and nothing else; and once the second search has
\* pushed a segment the function has returned.
C17_AtMostTwoSegments ==
    Halving =>
        /\ Len(seg.lines) <= 2
        /\ Len(seg.lines) = 2 => Returned
        /\ (Returned /\ size > 0
              /\ WholeLine.length2 > minLengthHalving * minLengthHalving
              /\ \A g \in Garbage : \A m \in EmptyMeans :
                    isLine(seg.path, 0, size - 1, seg.maxError, g, m).value)
             => seg.lines = <<WholeLine>>

\* Two segments found on a path with a corner
C17_Witness ==
    /\ Returned
    /\ Halving
    /\ Len(seg.lines) = 2
    /\ seg.lines[1].p2 = seg.lines[2].p1
    /\ seg.ranges[1].start + seg.ranges[1].len = seg.ranges[2].start

\* The path indices strictly inside the segment settled at index start
\* with length len, round the end of the path
Inside(r) == {(r.start + t) % size : t \in 1 .. (r.len - 1)}

\* C18 as stated: no path index lies strictly inside two different
\* segments of one result; a later segment does not wrap round into the
\* first one.
C18_NonOverlapping ==
    \A a \in 1 .. Len(seg.lines) : \A b \in 1 .. Len(seg.lines) :
        a # b => Inside(seg.ranges[a]) \cap Inside(seg.ranges[b]) = {}

\* Every step of a call takes one round of one of its loops
StepBound == (maxLookAhead + 4) * (size + 1)

\* A call that has not returned stands at one of its loops
AtLoop ==
    \/ seg.pc \in {"enter", "first", "second"}
    \/ Halving /\ seg.pc \in {"whole", "firstExtend", "secondExtend"}
    \/ Extending /\ seg.pc \in {"firstLarger", "secondLarger"}

\* C19: a call of either search ends: no loop of it, of isLine, of
\* lineError or of findLargerLength runs on for ever, whatever the
\* indices, and the call returns within StepBound rounds.
C19_Terminates ==
    /\ ~seg.diverged
    /\ seg.steps <= StepBound
    /\ Returned \/ AtLoop

\* A window of findLargerLength has been extended round the end of the path
C19_Witness ==
    /\ Returned
    /\ Extending
    /\ seg.steps > maxLookAhead
    /\ \E k \in 1 .. Len(seg.ranges) :
          /\ seg.ranges[k].start + seg.ranges[k].len > size
          /\ seg.ranges[k].len > seg.length

\* The whole path is returned as one line by findLinesHalvingExtending
WholeIsLine ==
    /\ size >= 1
    /\ distance2(path(0, CoordZero), path(size - 1, CoordZero))
         > minLengthHalving * minLengthHalving
    /\ \E g \in Garbage : \E m \in EmptyMeans :
          isLine(seg.path, 0, size - 1, seg.maxError, g, m).value

\* The start indices whose window of size/2 points is a line
HalfWindowLines ==
    {i \in 0 .. (size - 1) :
        \E g \in Garbage : \E m \in EmptyMeans :
           isLine(seg.path, i, i + (size \div 2), seg.maxError, g, m).value}

\* C23 as stated: when the whole path is not one line, the first loop of
\* findLinesHalvingExtending tries the window of size/2 points at every
\* start index before it shrinks it, so that it returns a first segment
\* whenever the window is a line at some start index.
C23_SlidesOverEveryStart ==
    (Returned /\ Halving /\ ~WholeIsLine
        /\ HalfWindowLines # {})
      => seg.lines # <<>>

\* length after k rounds of the first loop: size/2 halved k times
RECURSIVE halved(_, _)
halved(len, k) == IF k = 0 THEN len ELSE halved(len \div 2, k - 1)

\* The currentLength findLargerLength was called with for the k-th line:
\* the length in force in the first loop, and in the second
lengthInForce(k) ==
    IF k = 1 THEN halved(size \div 2, seg.ranges[1].start) ELSE seg.length

\* The k-th line could have been made longer by one point: the error of
\* the longer line is lower, and its end has not come round to its start
LowerErrorAhead(k) ==
    LET start == seg.ranges[k].start
        currentLength == lengthInForce(k)
    IN /\ (start + currentLength + 1) % size # start % size
       /\ \E m \in EmptyMeans :
             errLess(lineError(seg.path, start, start + currentLength + 1, m),
                     lineError(seg.path, start, start + currentLength, m))

\* C24 as stated: findLargerLength returns a length greater than
\* currentLength whenever the line one point longer has a lower error and
\* does not end where it starts, whatever the start index, 0 and lines
\* that do not wrap round the end of the path included.
C24_ExtendsWhileErrorDecreases ==
    (Returned /\ Extending) =>
        \A k \in 1 .. Len(seg.ranges) :
            LowerErrorAhead(k) => seg.ranges[k].len > lengthInForce(k)

\* The k-th line of the result joins path[a] and path[b]
LineEnds(k) ==
    [a |-> seg.ranges[k].start,
     b |-> seg.ranges[k].start + seg.ranges[k].len]

\* C27: every segment findLinesHalvingExtending returns is
\* (path[a], path[b]) with 0 <= a < b <= size-1, without wrapping round
\* the end of the path, and isLine(path, a, b, maxError) is true: the
\* growth of a line steps back to the last end that was tried and
\* accepted.
C27_HalvingSegmentsAreLines ==
    (Returned /\ Halving) =>
        \A k \in 1 .. Len(seg.lines) :
            LET a == LineEnds(k).a
                b == LineEnds(k).b
            IN /\ 0 <= a
               /\ a < b
               /\ b <= size - 1
               /\ seg.lines[k] = Line(path(a, CoordZero), path(b, CoordZero))
               /\ \A g \in Garbage : \A m \in EmptyMeans :
                     isLine(seg.path, a, b, seg.maxError, g, m).value

\* A second line that grew by three points or more and stopped at a point
\* that is no longer on it, before the end of the path
C27_Witness ==
    /\ Returned
    /\ Halving
    /\ Len(seg.lines) = 2
    /\ seg.ranges[2].len >= minLengthHalving + 3
    /\ LineEnds(2).b < size - 1
    /\ \A g \in Garbage : \A m \in EmptyMeans :
          ~isLine(seg.path, LineEnds(2).a, LineEnds(2).b + 1, seg.maxError,
                  g, m).value

\* C28: every segment findLinesExtendingDecreasingError returns joins
\* path[s mod size] and path[(s+L) mod size] for a start s and a length L
\* with lineError(path, s, s+L) < maxError, and L is at least the length
\* in force when the segment was found.
C28_ExtendingSegmentsMeetBound ==
    (Returned /\ Extending) =>
        \A k \in 1 .. Len(seg.lines) :
            LET s == seg.ranges[k].start
                L == seg.ranges[k].len
            IN /\ seg.lines[k] = Line(path(s % size, CoordZero),
                                      path((s + L) % size, CoordZero))
               /\ L >= lengthInForce(k)
               /\ \A m \in seg.means :
                     errLess(lineError(seg.path, s, s + L, m), seg.maxError)

\* A line that findLargerLength made longer, with an error above 0
C28_Witness ==
    /\ Returned
    /\ Extending
    /\ \E k \in 1 .. Len(seg.lines) :
          /\ seg.ranges[k].len > lengthInForce(k)
          /\ \A m \in EmptyMeans :
                lineError(seg.path, seg.ranges[k].start,
                          seg.ranges[k].start + seg.ranges[k].len, m).num > 0

\* A call of findLargerLength is in progress
InLarger == seg.pc \in {"firstLarger", "secondLarger"}

\* What findLargerLength would return if its loop ended now
rolledBack(s) == s.largerLength - (s.increasing + 1)

\* The length the loop of findLargerLength is about to try has a lower
\* error than the lowest met so far, with the mean of an empty dist as the
\* round finds it
LowerError ==
    /\ (seg.i + seg.largerLength) % size < seg.i
    /\ \E m \in seg'.means :
          errLess(lineError(seg.path, seg.i, seg.i + seg.largerLength, m),
                  seg.currentError)

\* C29: findLargerLength returns the last length it tried whose lineError
\* was lower than the lowest before it, or currentLength if there was
\* none, and never less than currentLength, whether its loop ended after
\* maxLookAhead lengths without a lower error or by its loop condition.
\* Step by step: on entry the length to return is currentLength; a tried
\* length with a lower error becomes the length to return; any other
\* leaves it as it is; and the length returned is that one.
C29_RollsBackToLastLowerError ==
    [][/\ (~InLarger /\ InLarger') => rolledBack(seg') = seg'.length
       /\ (InLarger /\ InLarger') =>
             /\ LowerError => rolledBack(seg') = seg.largerLength
             /\ ~LowerError => rolledBack(seg') = rolledBack(seg)
       /\ (InLarger /\ ~InLarger') =>
             /\ ~LowerError
             /\ Len(seg'.ranges) = Len(seg.ranges) + 1
             /\ seg'.ranges[Len(seg'.ranges)].len = rolledBack(seg)
             /\ seg'.ranges[Len(seg'.ranges)].len >= seg.length]_vars

\* A call has returned a length above currentLength after maxLookAhead
\* lengths in a row without a lower error
C29_Witness ==
    /\ Returned
    /\ Extending
    /\ seg.ranges # <<>>
    /\ seg.increasing = maxLookAhead
    /\ seg.ranges[Len(seg.ranges)].len > seg.length

\* A round of findLinesExtendingDecreasingError or of findLargerLength that
\* calls lineError, and the length it passes
CallsLineError ==
    /\ Extending
    /\ \/ seg.pc = "first" /\ seg.length >= minLengthExtending
       \/ seg.pc = "second"
       \/ InLarger /\ (seg.i + seg.largerLength) % size < seg.i

lengthPassed == IF InLarger THEN seg.largerLength ELSE seg.length

---------------------------------------------------------------------------
\* Outline (outline.h): the boundary of one labeled component, walked from
\* a seed pixel. Its contract gives the walk a cap on its length and no
\* rule for the pixel to visit next: the model lets the walk move to any
\* 8-adjacent pixel of the seed's component, and stay where it is when
\* there is none (a single-pixel speck).

\* Bounds of the traced image and of the cap
OutW == 3
OutH == 2
MaxSteps == 4

\* The pixels of the component a walk at c can move to
Adjacent(c) ==
    LET near == {d \in Cells : /\ d # c
                               /\ abs(d.x - c.x) <= 1
                               /\ abs(d.y - c.y) <= 1
                               /\ labels[d.y][d.x] = labels[c.y][c.x]}
    IN IF near = {} THEN {c} ELSE near

\* Outline::Outline(blobs, point, maxLength) before its first step
Outline(point, maxLength) ==
    [pc |-> "trace", seed |-> point, max_length |-> maxLength,
     position |-> point, points |-> <<>>, closed |-> FALSE,
     result |-> <<>>]

\* One step of the walk: the pixel the walk stands on joins the path, the
\* walk moves on, and the contour is closed when it is back at the seed.
TraceUncapped ==
    /\ outline.pc = "trace"
    /\ ~outline.closed
    /\ \E c \in Adjacent(outline.position) :
          outline' = [outline EXCEPT
                         !.points = Append(@, outline.position),
                         !.position = c,
                         !.closed = (c = outline.seed)]
    /\ UNCHANGED <<blobs, seg>>

Trace ==
    /\ outline.pc = "trace"
    /\ ~outline.closed
    /\ Len(outline.points) < outline.max_length
    /\ \E c \in Adjacent(outline.position) :
          outline' = [outline EXCEPT
                         !.points = Append(@, outline.position),
                         !.position = c,
                         !.closed = (c = outline.seed)]
    /\ UNCHANGED <<blobs, seg>>

\* The walk is over, closed or cut short: points() is what it gathered
Points ==
    /\ outline.pc = "trace"
    /\ outline.closed \/ Len(outline.points) >= outline.max_length
    /\ outline' = [outline EXCEPT !.pc = "done", !.result = outline.points]
    /\ UNCHANGED <<blobs, seg>>

\* Labeled images, seeds and caps
LabelGrids ==
    [0 .. (OutH - 1) -> [0 .. (OutW - 1) -> {1, 2}]]

OutlineInit ==
    /\ w = OutW
    /\ h = OutH
    /\ img = EmptyMap
    /\ labels \in LabelGrids
    /\ set = EmptyMap
    /\ objs = EmptyMap
    /\ next_label = default_label + 1
    /\ pc = "outline"
    /\ x = 0
    /\ y = 0
    /\ ret = NoRet
    /\ outline \in {Outline(Coord(px, py), m) :
                       px \in 0 .. (OutW - 1), py \in 0 .. (OutH - 1),
                       m \in 0 .. MaxSteps}
    /\ seg = idle

OutlineNext ==
    \/ Trace
    \/ Points

SpecOutline == OutlineInit /\ [][OutlineNext]_vars

\* The walk can go on, or end
Walking ==
    /\ outline.pc = "trace"
    /\ \/ outline.closed
       \/ Len(outline.points) >= outline.max_length
       \/ Adjacent(outline.position) # {}

\* C11: whatever the labeled image, the seed and the cap M, the trace ends
\* and the path it returns has at most M points; a walk that has not
\* closed its contour within M steps returns the M points gathered so far.
C11_TraceBounded ==
    /\ outline.pc = "done" \/ Walking
    /\ Len(outline.points) <= outline.max_length
    /\ outline.pc = "done" =>
          /\ outline.result = outline.points
          /\ Len(outline.result) <= outline.max_length
          /\ ~outline.closed => Len(outline.result) = outline.max_length

\* A walk through three pixels of a component was cut short by the cap
C11_Witness ==
    /\ outline.pc = "done"
    /\ ~outline.closed
    /\ outline.max_length = 3
    /\ Len(outline.result) = 3
    /\ Cardinality({outline.result[k] : k \in 1 .. 3}) = 3

====
